---- MODULE Spec2Model ----
(***************************************************************************)
(* Model of BitcoinAccountingApp (src/src/main.rs): the UTXO set, the      *)
(* transaction log, the accounting entries and the exchange-rate table,    *)
(* with one action per method of the impl block.                           *)
(*                                                                         *)
(* Strings are sequences of text fragments (a literal of a format string   *)
(* is one fragment, every other character is a fragment of its own), so    *)
(* format!() is concatenation.  Decimal values are integers; DateTime      *)
(* values are naturals.                                                    *)
(***************************************************************************)
EXTENDS Integers, Sequences, FiniteSets, TLC

VARIABLES utxo_set, transactions, accounting_entries, exchange_rates,
          ret,          \* what the last call returned
          rate_calls    \* history: the add_exchange_rate calls made so far

vars == <<utxo_set, transactions, accounting_entries, exchange_rates, ret, rate_calls>>

(***************************************************************************)
(* Bounds and input domains.                                               *)
(***************************************************************************)
MaxLog == 2

MaxUtxos == 2

MaxRateCalls == 2

TxIds == {<<"a">>, <<"b">>}

Vouts == {0, 1}

Times == {0, 1}

Amounts == {-1, 1}

Fees == {-1, 0, 3}

Rates == {50000, 55000}

(***************************************************************************)
(* Decimal::ZERO, Decimal::ONE.                                            *)
(***************************************************************************)
DecimalZERO == 0

DecimalONE == 1

(***************************************************************************)
(* struct UTXO, struct Transaction, struct AccountingEntry.                *)
(***************************************************************************)
UTXO(txid, vout, amount, timestamp) ==
    [txid |-> txid, vout |-> vout, amount |-> amount, address |-> <<"addr1">>,
     confirmations |-> 6, spendable |-> TRUE, timestamp |-> timestamp]

Transaction(txid, timestamp, inputs, outputs, fee) ==
    [txid |-> txid, timestamp |-> timestamp, inputs |-> inputs,
     outputs |-> outputs, fee |-> fee]

AccountingEntry(date, description, debit, credit) ==
    [date |-> date, description |-> description, debit |-> debit, credit |-> credit]

(***************************************************************************)
(* Display of a u32: its decimal digits, most significant first.           *)
(***************************************************************************)
DigitChar(d) == <<"0", "1", "2", "3", "4", "5", "6", "7", "8", "9">>[d + 1]

RECURSIVE DisplayU32(_)
DisplayU32(n) ==
    IF n < 10 THEN <<DigitChar(n)>>
    ELSE DisplayU32(n \div 10) \o <<DigitChar(n % 10)>>

(* format!("{}:{}", txid, vout) *)
FormatKey(txid, vout) == txid \o <<":">> \o DisplayU32(vout)

(* format!("Received BTC - {}", txid) and the two others *)
FormatReceived(txid) == <<"Received BTC - ">> \o txid

FormatSent(txid) == <<"Sent BTC - ">> \o txid

FormatFee(txid) == <<"Transaction fee - ">> \o txid

(***************************************************************************)
(* HashMap::remove, HashMap::insert, HashMap::get(..).unwrap_or(..).       *)
(***************************************************************************)
MapRemove(m, k) == [x \in DOMAIN m \ {k} |-> m[x]]

(* a plausible slip: entry().or_insert(), which keeps the value already there *)
MapInsertKeep(m, k, v) == [x \in DOMAIN m \cup {k} |-> IF x \in DOMAIN m THEN m[x] ELSE v]

MapInsert(m, k, v) == [x \in DOMAIN m \cup {k} |-> IF x = k THEN v ELSE m[x]]

(* a plausible slip: unwrap_or_default(), a missing rate counting as zero *)
MapGetOrZero(m, k, default) == IF k \in DOMAIN m THEN m[k] ELSE 0

MapGetOr(m, k, default) == IF k \in DOMAIN m THEN m[k] ELSE default

EmptyMap == [x \in {} |-> 0]

(* the () a method without result returns *)
Unit == [op |-> "unit"]

(***************************************************************************)
(* add_transaction: the two loops over the UTXO set and the two sums.      *)
(***************************************************************************)
(* a plausible slip: the loop ends at the first input that is not in the set *)
RECURSIVE RemoveSpentUntilMissing(_, _)
RemoveSpentUntilMissing(set, inputs) ==
    IF inputs = <<>> THEN set
    ELSE IF FormatKey(Head(inputs).txid, Head(inputs).vout) \notin DOMAIN set THEN set
    ELSE RemoveSpentUntilMissing(
             MapRemove(set, FormatKey(Head(inputs).txid, Head(inputs).vout)),
             Tail(inputs))

(* a plausible slip: the spent outputs are never removed *)
RemoveSpentNever(set, inputs) == set

RECURSIVE RemoveSpent(_, _)
RemoveSpent(set, inputs) ==
    IF inputs = <<>> THEN set
    ELSE RemoveSpent(MapRemove(set, FormatKey(Head(inputs).txid, Head(inputs).vout)),
                     Tail(inputs))

RECURSIVE AddNew(_, _, _)
AddNew(set, txid, outputs) ==
    IF outputs = <<>> THEN set
    ELSE AddNew(MapInsert(set, FormatKey(txid, Head(outputs).vout), Head(outputs)),
                txid, Tail(outputs))

RECURSIVE SumAmount(_)
SumAmount(utxos) ==
    IF utxos = <<>> THEN DecimalZERO
    ELSE Head(utxos).amount + SumAmount(Tail(utxos))

(* a plausible slip: the received total booked on the credit side *)
DebitEntryOnCredit(transaction) ==
    IF SumAmount(transaction.outputs) > DecimalZERO
    THEN <<AccountingEntry(transaction.timestamp, FormatReceived(transaction.txid),
                           DecimalZERO, SumAmount(transaction.outputs))>>
    ELSE <<>>

DebitEntry(transaction) ==
    IF SumAmount(transaction.outputs) > DecimalZERO
    THEN <<AccountingEntry(transaction.timestamp, FormatReceived(transaction.txid),
                           SumAmount(transaction.outputs), DecimalZERO)>>
    ELSE <<>>

(* a plausible slip: != for >, which books a negative total *)
CreditEntryNonZero(transaction) ==
    IF SumAmount(transaction.inputs) # DecimalZERO
    THEN <<AccountingEntry(transaction.timestamp, FormatSent(transaction.txid),
                           DecimalZERO, SumAmount(transaction.inputs))>>
    ELSE <<>>

CreditEntry(transaction) ==
    IF SumAmount(transaction.inputs) > DecimalZERO
    THEN <<AccountingEntry(transaction.timestamp, FormatSent(transaction.txid),
                           DecimalZERO, SumAmount(transaction.inputs))>>
    ELSE <<>>

(* a plausible slip: >= for >, which books a zero fee *)
FeeEntryNonNegative(transaction) ==
    IF transaction.fee >= DecimalZERO
    THEN <<AccountingEntry(transaction.timestamp, FormatFee(transaction.txid),
                           DecimalZERO, transaction.fee)>>
    ELSE <<>>

FeeEntry(transaction) ==
    IF transaction.fee > DecimalZERO
    THEN <<AccountingEntry(transaction.timestamp, FormatFee(transaction.txid),
                           DecimalZERO, transaction.fee)>>
    ELSE <<>>

(* a plausible slip: the outputs inserted before the inputs are removed *)
AddTransactionInsertFirst(transaction) ==
    /\ Len(transactions) < MaxLog
    /\ utxo_set' = RemoveSpent(AddNew(utxo_set, transaction.txid, transaction.outputs),
                               transaction.inputs)
    /\ accounting_entries' = accounting_entries \o DebitEntry(transaction)
                                \o CreditEntry(transaction) \o FeeEntry(transaction)
    /\ transactions' = Append(transactions, transaction)
    /\ ret' = Unit
    /\ UNCHANGED <<exchange_rates, rate_calls>>

(* a plausible slip: the transaction put at the front of the log *)
AddTransactionAtFront(transaction) ==
    /\ Len(transactions) < MaxLog
    /\ utxo_set' = AddNew(RemoveSpent(utxo_set, transaction.inputs),
                          transaction.txid, transaction.outputs)
    /\ accounting_entries' = accounting_entries \o DebitEntry(transaction)
                                \o CreditEntry(transaction) \o FeeEntry(transaction)
    /\ transactions' = <<transaction>> \o transactions
    /\ ret' = Unit
    /\ UNCHANGED <<exchange_rates, rate_calls>>

AddTransaction(transaction) ==
    /\ Len(transactions) < MaxLog
    /\ utxo_set' = AddNew(RemoveSpent(utxo_set, transaction.inputs),
                          transaction.txid, transaction.outputs)
    /\ accounting_entries' = accounting_entries \o DebitEntry(transaction)
                                \o CreditEntry(transaction) \o FeeEntry(transaction)
    /\ transactions' = Append(transactions, transaction)
    /\ ret' = Unit
    /\ UNCHANGED <<exchange_rates, rate_calls>>

(***************************************************************************)
(* generate_fasb_report.                                                   *)
(***************************************************************************)
(* a plausible slip: every kept entry put before the ones kept so far *)
RECURSIVE FilterEntriesReversed(_, _, _)
FilterEntriesReversed(entries, start_date, end_date) ==
    IF entries = <<>> THEN <<>>
    ELSE FilterEntriesReversed(Tail(entries), start_date, end_date)
         \o (IF Head(entries).date >= start_date /\ Head(entries).date <= end_date
             THEN <<Head(entries)>> ELSE <<>>)

(* a plausible slip: || for &&, which keeps everything of a malformed window *)
RECURSIVE FilterEntriesEither(_, _, _)
FilterEntriesEither(entries, start_date, end_date) ==
    IF entries = <<>> THEN <<>>
    ELSE (IF Head(entries).date >= start_date \/ Head(entries).date <= end_date
          THEN <<Head(entries)>> ELSE <<>>)
         \o FilterEntriesEither(Tail(entries), start_date, end_date)

(* a plausible slip: an end-exclusive window *)
RECURSIVE FilterEntriesEndExclusive(_, _, _)
FilterEntriesEndExclusive(entries, start_date, end_date) ==
    IF entries = <<>> THEN <<>>
    ELSE (IF Head(entries).date >= start_date /\ Head(entries).date < end_date
          THEN <<Head(entries)>> ELSE <<>>)
         \o FilterEntriesEndExclusive(Tail(entries), start_date, end_date)

RECURSIVE FilterEntries(_, _, _)
FilterEntries(entries, start_date, end_date) ==
    IF entries = <<>> THEN <<>>
    ELSE (IF Head(entries).date >= start_date /\ Head(entries).date <= end_date
          THEN <<Head(entries)>> ELSE <<>>)
         \o FilterEntries(Tail(entries), start_date, end_date)

(* a plausible slip: drain(..) for iter(), which empties the log it reports *)
GenerateFasbReportDraining(start_date, end_date) ==
    /\ ret' = [op |-> "generate_fasb_report",
               value |-> FilterEntries(accounting_entries, start_date, end_date)]
    /\ accounting_entries' = <<>>
    /\ UNCHANGED <<utxo_set, transactions, exchange_rates, rate_calls>>

GenerateFasbReport(start_date, end_date) ==
    /\ ret' = [op |-> "generate_fasb_report",
               value |-> FilterEntries(accounting_entries, start_date, end_date)]
    /\ UNCHANGED <<utxo_set, transactions, accounting_entries, exchange_rates, rate_calls>>

(***************************************************************************)
(* calculate_realized_gains_losses.                                        *)
(***************************************************************************)
RECURSIVE AcquisitionCost(_, _)
AcquisitionCost(inputs, rates) ==
    IF inputs = <<>> THEN DecimalZERO
    ELSE Head(inputs).amount * MapGetOr(rates, Head(inputs).timestamp, DecimalONE)
         + AcquisitionCost(Tail(inputs), rates)

(* a plausible slip: each output priced at its own timestamp *)
RECURSIVE SaleValueAtOutputTime(_, _, _)
SaleValueAtOutputTime(outputs, timestamp, rates) ==
    IF outputs = <<>> THEN DecimalZERO
    ELSE Head(outputs).amount * MapGetOr(rates, Head(outputs).timestamp, DecimalONE)
         + SaleValueAtOutputTime(Tail(outputs), timestamp, rates)

RECURSIVE SaleValue(_, _, _)
SaleValue(outputs, timestamp, rates) ==
    IF outputs = <<>> THEN DecimalZERO
    ELSE Head(outputs).amount * MapGetOr(rates, timestamp, DecimalONE)
         + SaleValue(Tail(outputs), timestamp, rates)

(* a plausible slip: >= for >, which leaves out a transaction dated end_date *)
RECURSIVE RealizedGainLossEndExclusive(_, _, _, _)
RealizedGainLossEndExclusive(txs, rates, start_date, end_date) ==
    IF txs = <<>> THEN DecimalZERO
    ELSE RealizedGainLossEndExclusive(SubSeq(txs, 1, Len(txs) - 1), rates,
                                      start_date, end_date)
         + (IF txs[Len(txs)].timestamp < start_date \/ txs[Len(txs)].timestamp >= end_date
            THEN DecimalZERO
            ELSE SaleValue(txs[Len(txs)].outputs, txs[Len(txs)].timestamp, rates)
                 - AcquisitionCost(txs[Len(txs)].inputs, rates))

(* a plausible slip: the running total starts at Decimal::ONE *)
RECURSIVE RealizedGainLossFromOne(_, _, _, _)
RealizedGainLossFromOne(txs, rates, start_date, end_date) ==
    IF txs = <<>> THEN DecimalONE
    ELSE RealizedGainLossFromOne(SubSeq(txs, 1, Len(txs) - 1), rates,
                                 start_date, end_date)
         + (IF txs[Len(txs)].timestamp < start_date \/ txs[Len(txs)].timestamp > end_date
            THEN DecimalZERO
            ELSE SaleValue(txs[Len(txs)].outputs, txs[Len(txs)].timestamp, rates)
                 - AcquisitionCost(txs[Len(txs)].inputs, rates))

RECURSIVE RealizedGainLoss(_, _, _, _)
RealizedGainLoss(txs, rates, start_date, end_date) ==
    IF txs = <<>> THEN DecimalZERO
    ELSE RealizedGainLoss(SubSeq(txs, 1, Len(txs) - 1), rates, start_date, end_date)
         + (IF txs[Len(txs)].timestamp < start_date \/ txs[Len(txs)].timestamp > end_date
            THEN DecimalZERO
            ELSE SaleValue(txs[Len(txs)].outputs, txs[Len(txs)].timestamp, rates)
                 - AcquisitionCost(txs[Len(txs)].inputs, rates))

CalculateRealizedGainsLosses(start_date, end_date) ==
    /\ ret' = [op |-> "calculate_realized_gains_losses",
               value |-> RealizedGainLoss(transactions, exchange_rates,
                                          start_date, end_date)]
    /\ UNCHANGED <<utxo_set, transactions, accounting_entries, exchange_rates, rate_calls>>

(***************************************************************************)
(* add_exchange_rate.                                                      *)
(***************************************************************************)
(* a plausible slip: the table replaced by one that holds the new rate only *)
AddExchangeRateReplacing(date, rate) ==
    /\ Len(rate_calls) < MaxRateCalls
    /\ exchange_rates' = MapInsert(EmptyMap, date, rate)
    /\ rate_calls' = Append(rate_calls, <<date, rate>>)
    /\ ret' = Unit
    /\ UNCHANGED <<utxo_set, transactions, accounting_entries>>

AddExchangeRate(date, rate) ==
    /\ Len(rate_calls) < MaxRateCalls
    /\ exchange_rates' = MapInsert(exchange_rates, date, rate)
    /\ rate_calls' = Append(rate_calls, <<date, rate>>)
    /\ ret' = Unit
    /\ UNCHANGED <<utxo_set, transactions, accounting_entries>>

(***************************************************************************)
(* BitcoinAccountingApp::new.                                              *)
(***************************************************************************)
Init ==
    /\ utxo_set = EmptyMap
    /\ transactions = <<>>
    /\ accounting_entries = <<>>
    /\ exchange_rates = EmptyMap
    /\ ret = Unit
    /\ rate_calls = <<>>

(***************************************************************************)
(* The callers' inputs: transactions with at most MaxUtxos inputs and      *)
(* outputs together.                                                       *)
(***************************************************************************)
SeqsUpTo(S, n) == UNION {[1..k -> S] : k \in 0..n}

TransactionsOver(txids, times, utxos, fees) ==
    {Transaction(txid, timestamp, io[1], io[2], fee) :
        txid \in txids, timestamp \in times, fee \in fees,
        io \in {p \in SeqsUpTo(utxos, MaxUtxos) \X SeqsUpTo(utxos, MaxUtxos) :
                    Len(p[1]) + Len(p[2]) <= MaxUtxos}}

Windows(times) == times \X times

(* outputs that differ in their identity *)
KeyUtxos == {UTXO(txid, vout, 1, 0) : txid \in TxIds, vout \in Vouts}

(* outputs that differ in their amount *)
AmountUtxos == {UTXO(<<"a">>, 0, amount, 0) : amount \in Amounts}

(* outputs that differ in their timestamp and amount *)
TimeUtxos == {UTXO(<<"a">>, 0, 1, 0), UTXO(<<"a">>, 0, 2, 1)}

NextOver(txs, dates, rates, windows) ==
    \/ \E transaction \in txs : AddTransaction(transaction)
    \/ \E date \in dates, rate \in rates : AddExchangeRate(date, rate)
    \/ \E w \in windows : GenerateFasbReport(w[1], w[2])
    \/ \E w \in windows : CalculateRealizedGainsLosses(w[1], w[2])

(* the UTXO bookkeeping: transactions over all output identities *)
LedgerTransactions == TransactionsOver(TxIds, {0}, KeyUtxos, {0})

Next == NextOver(LedgerTransactions, {0}, {50000}, {<<0, 0>>})

Spec == Init /\ [][Next]_vars

(* the accounting entries: transactions over all amounts, fees and dates *)
AccountingTransactions == TransactionsOver({<<"a">>}, Times, AmountUtxos, Fees)

NextAccounting == NextOver(AccountingTransactions, {0}, {50000}, Windows(Times))

SpecAccounting == Init /\ [][NextAccounting]_vars

(* the gains and losses: transactions and rates over all timestamps *)
NextRates ==
    NextOver(TransactionsOver({<<"a">>}, Times, TimeUtxos, {0}), Times, Rates,
             Windows(Times))

SpecRates == Init /\ [][NextRates]_vars

(***************************************************************************)
(* Vocabulary of the properties.                                           *)
(***************************************************************************)
InputKeys(tx) ==
    {FormatKey(tx.inputs[i].txid, tx.inputs[i].vout) : i \in DOMAIN tx.inputs}

OutputKeys(tx) ==
    {FormatKey(tx.txid, tx.outputs[i].vout) : i \in DOMAIN tx.outputs}

(* P: the keys of all outputs of the log; C: the keys of all its inputs *)
Produced == UNION {OutputKeys(transactions[i]) : i \in DOMAIN transactions}

Consumed == UNION {InputKeys(transactions[i]) : i \in DOMAIN transactions}

(* some transaction of the log produces a key that it, or an earlier one, consumes *)
ProducedAfterConsumed ==
    \E i \in DOMAIN transactions : \E j \in 1..i :
        OutputKeys(transactions[i]) \cap InputKeys(transactions[j]) # {}

(* the last output of tx stored under key k *)
LastOutputAt(tx, k) ==
    LET at == {i \in DOMAIN tx.outputs : FormatKey(tx.txid, tx.outputs[i].vout) = k}
    IN  tx.outputs[CHOOSE i \in at : \A j \in at : j <= i]

(* replaying one transaction: its input keys leave, then its outputs enter *)
ReplayOne(set, tx) ==
    [k \in (DOMAIN set \ InputKeys(tx)) \cup OutputKeys(tx) |->
        IF k \in OutputKeys(tx) THEN LastOutputAt(tx, k) ELSE set[k]]

RECURSIVE Replay(_)
Replay(log) ==
    IF log = <<>> THEN EmptyMap
    ELSE ReplayOne(Replay(SubSeq(log, 1, Len(log) - 1)), log[Len(log)])

(***************************************************************************)
(* C1 as stated: the keys of utxo_set are the produced keys minus the      *)
(* consumed keys of the log, P \ C.                                        *)
(***************************************************************************)
C1_KeysAreProducedMinusConsumed == DOMAIN utxo_set = Produced \ Consumed

(***************************************************************************)
(* C1 amended: the keys of utxo_set lie between P \ C and P, and they are  *)
(* exactly P \ C when no transaction of the log produces a key that it or  *)
(* an earlier transaction consumes.                                        *)
(***************************************************************************)
C1_KeysBetween ==
    /\ Produced \ Consumed \subseteq DOMAIN utxo_set
    /\ DOMAIN utxo_set \subseteq Produced
    /\ ~ProducedAfterConsumed => DOMAIN utxo_set = Produced \ Consumed

(* an output was produced and later spent, another one is still unspent *)
C1_Witness ==
    /\ ~ProducedAfterConsumed
    /\ Produced \cap Consumed # {}
    /\ utxo_set # EmptyMap

(***************************************************************************)
(* C2: utxo_set, keys and records, is the replay of the transaction log    *)
(* from the empty set, whatever calls were made in between.                *)
(***************************************************************************)
C2_UnspentIsReplay == utxo_set = Replay(transactions)

(* a query on a ledger where an output was overwritten and another spent *)
C2_Witness ==
    /\ Len(transactions) = 2
    /\ OutputKeys(transactions[1]) \cap OutputKeys(transactions[2]) # {}
    /\ OutputKeys(transactions[1]) \cap InputKeys(transactions[2]) # {}
    /\ rate_calls # <<>>
    /\ ret.op = "calculate_realized_gains_losses"

(***************************************************************************)
(* C3: every entry of utxo_set is stored under the key made of the txid    *)
(* and the vout of the record it holds.                                    *)
(***************************************************************************)
C3_KeyedByRecordIdentity ==
    \A k \in DOMAIN utxo_set : k = FormatKey(utxo_set[k].txid, utxo_set[k].vout)

(***************************************************************************)
(* A step that applies a transaction, the transaction it applies, and the  *)
(* accounting entries it appends.                                          *)
(***************************************************************************)
IsApply == Len(transactions') = Len(transactions) + 1

Applied == transactions'[Len(transactions')]

Appended ==
    SubSeq(accounting_entries', Len(accounting_entries) + 1, Len(accounting_entries'))

EntriesKept ==
    /\ Len(accounting_entries') >= Len(accounting_entries)
    /\ SubSeq(accounting_entries', 1, Len(accounting_entries)) = accounting_entries

RECURSIVE TotalAmount(_)
TotalAmount(utxos) ==
    IF Len(utxos) = 0 THEN 0
    ELSE TotalAmount(SubSeq(utxos, 1, Len(utxos) - 1)) + utxos[Len(utxos)].amount

IsReceived(entry) == entry.description[1] = "Received BTC - "

IsSent(entry) == entry.description[1] = "Sent BTC - "

IsFee(entry) == entry.description[1] = "Transaction fee - "

PositiveTotals(tx) ==
    (IF TotalAmount(tx.outputs) > 0 THEN 1 ELSE 0)
    + (IF TotalAmount(tx.inputs) > 0 THEN 1 ELSE 0)
    + (IF tx.fee > 0 THEN 1 ELSE 0)

(***************************************************************************)
(* C4: applying a transaction whose total output, total input and fee are  *)
(* all positive appends exactly the Received entry (debit total output),   *)
(* the Sent entry (credit total input) and the fee entry (credit fee), in  *)
(* this order, each dated as the transaction, and keeps the entries before.*)
(***************************************************************************)
C4_ThreeEntriesInOrder ==
    [][(/\ IsApply
        /\ TotalAmount(Applied.outputs) > 0
        /\ TotalAmount(Applied.inputs) > 0
        /\ Applied.fee > 0)
       => accounting_entries' = accounting_entries \o
            << [date |-> Applied.timestamp,
                description |-> <<"Received BTC - ">> \o Applied.txid,
                debit |-> TotalAmount(Applied.outputs), credit |-> 0],
               [date |-> Applied.timestamp,
                description |-> <<"Sent BTC - ">> \o Applied.txid,
                debit |-> 0, credit |-> TotalAmount(Applied.inputs)],
               [date |-> Applied.timestamp,
                description |-> <<"Transaction fee - ">> \o Applied.txid,
                debit |-> 0, credit |-> Applied.fee] >>]_vars

(* a transaction with three positive totals was applied after another one *)
C4_Witness ==
    /\ Len(transactions) = 2
    /\ TotalAmount(transactions[2].outputs) > 0
    /\ TotalAmount(transactions[2].inputs) > 0
    /\ transactions[2].fee > 0
    /\ Len(accounting_entries) > 3

(***************************************************************************)
(* C5: applying a transaction appends a Sent entry iff its total input is  *)
(* positive, a Received entry iff its total output is positive and a fee   *)
(* entry iff its fee is positive; the number of entries appended is the    *)
(* number of positive totals, between 0 and 3.                             *)
(***************************************************************************)
C5_EntryIffPositive ==
    [][IsApply =>
        /\ EntriesKept
        /\ (\E i \in DOMAIN Appended : IsSent(Appended[i]))
              <=> TotalAmount(Applied.inputs) > 0
        /\ (\E i \in DOMAIN Appended : IsReceived(Appended[i]))
              <=> TotalAmount(Applied.outputs) > 0
        /\ (\E i \in DOMAIN Appended : IsFee(Appended[i])) <=> Applied.fee > 0
        /\ Applied.inputs = <<>> => \A i \in DOMAIN Appended : ~IsSent(Appended[i])
        /\ Applied.outputs = <<>> => \A i \in DOMAIN Appended : ~IsReceived(Appended[i])
        /\ Applied.fee = 0 => \A i \in DOMAIN Appended : ~IsFee(Appended[i])
        /\ Len(Appended) = PositiveTotals(Applied)
        /\ Len(Appended) \in 0..3]_vars

(* inputs whose amounts cancel and a zero fee: only the Received entry *)
C5_Witness ==
    /\ Len(transactions) = 1
    /\ transactions[1].inputs # <<>>
    /\ TotalAmount(transactions[1].inputs) <= 0
    /\ TotalAmount(transactions[1].outputs) > 0
    /\ transactions[1].fee = 0
    /\ Len(accounting_entries) = 1

(***************************************************************************)
(* C6: the report for a window is the subsequence of the accounting        *)
(* entries dated within the window, both ends included, in log order.      *)
(***************************************************************************)
EntriesWithin(start, end) ==
    LET within(entry) == start <= entry.date /\ entry.date <= end
    IN  SelectSeq(accounting_entries, within)

C6_ReportIsWindow ==
    [][\A w \in Windows(Times) :
        GenerateFasbReport(w[1], w[2]) => ret'.value = EntriesWithin(w[1], w[2])]_vars

(* a report of a one-instant window that keeps the entries of that instant *)
(* and drops those dated one unit away                                     *)
C6_Witness ==
    /\ ret.op = "generate_fasb_report"
    /\ ret.value # <<>>
    /\ \A i, j \in DOMAIN ret.value : ret.value[i].date = ret.value[j].date
    /\ \E i \in DOMAIN accounting_entries :
          accounting_entries[i].date # ret.value[1].date

(***************************************************************************)
(* The gain or loss of a window under a rate table, as a sum over the      *)
(* transactions of the log.                                                *)
(***************************************************************************)
RECURSIVE SeqSum(_)
SeqSum(values) ==
    IF Len(values) = 0 THEN 0
    ELSE SeqSum(SubSeq(values, 1, Len(values) - 1)) + values[Len(values)]

RateAt(rates, t) == IF t \in DOMAIN rates THEN rates[t] ELSE 1

TxGain(rates, tx) ==
    SeqSum([j \in DOMAIN tx.outputs |-> tx.outputs[j].amount * RateAt(rates, tx.timestamp)])
    - SeqSum([j \in DOMAIN tx.inputs |->
                tx.inputs[j].amount * RateAt(rates, tx.inputs[j].timestamp)])

Within(tx, start, end) == start <= tx.timestamp /\ tx.timestamp <= end

GainOver(rates, start, end) ==
    SeqSum([i \in DOMAIN transactions |->
              IF Within(transactions[i], start, end)
              THEN TxGain(rates, transactions[i]) ELSE 0])

(***************************************************************************)
(* C7: the realized gain or loss of a window is the sum, over the          *)
(* transactions dated within it, of the outputs priced at the rate of the  *)
(* transaction's timestamp minus the inputs priced at the rate of their    *)
(* own timestamp, with the rates of the table at the time of the query.    *)
(***************************************************************************)
C7_GainIsSum ==
    [][\A w \in Windows(Times) :
        CalculateRealizedGainsLosses(w[1], w[2])
            => ret'.value = GainOver(exchange_rates, w[1], w[2])]_vars

(* one input of amount 1 priced at 50000, one output of amount 1 priced at *)
(* 55000: a gain of 5000                                                   *)
C7_Witness ==
    /\ Len(transactions) = 1
    /\ Len(transactions[1].inputs) = 1
    /\ Len(transactions[1].outputs) = 1
    /\ transactions[1].inputs[1].amount = 1
    /\ transactions[1].outputs[1].amount = 1
    /\ transactions[1].inputs[1].timestamp # transactions[1].timestamp
    /\ RateAt(exchange_rates, transactions[1].inputs[1].timestamp) = 50000
    /\ RateAt(exchange_rates, transactions[1].timestamp) = 55000
    /\ ret.op = "calculate_realized_gains_losses"
    /\ ret.value = 5000

(***************************************************************************)
(* C8: when the rate table has no entry for a transaction's timestamp nor  *)
(* for the timestamp of any of its inputs, the gain or loss of a window    *)
(* that holds only this transaction is the sum of its output amounts minus *)
(* the sum of its input amounts.                                           *)
(***************************************************************************)
NoRateFor(tx) ==
    /\ tx.timestamp \notin DOMAIN exchange_rates
    /\ \A j \in DOMAIN tx.inputs : tx.inputs[j].timestamp \notin DOMAIN exchange_rates

OnlyWithin(i, start, end) ==
    \A k \in DOMAIN transactions : Within(transactions[k], start, end) <=> k = i

C8_IdentityRate ==
    [][\A w \in Windows(Times) :
        CalculateRealizedGainsLosses(w[1], w[2]) =>
            \A i \in DOMAIN transactions :
                OnlyWithin(i, w[1], w[2]) /\ NoRateFor(transactions[i])
                    => ret'.value = TotalAmount(transactions[i].outputs)
                                      - TotalAmount(transactions[i].inputs)]_vars

(* the table holds rates, but none for the one transaction of the window, *)
(* which has an input and an output                                        *)
C8_Witness ==
    /\ exchange_rates # EmptyMap
    /\ Len(transactions) = 2
    /\ transactions[1].timestamp # transactions[2].timestamp
    /\ NoRateFor(transactions[2])
    /\ transactions[2].inputs # <<>>
    /\ transactions[2].outputs # <<>>
    /\ TxGain(exchange_rates, transactions[1]) # 0
    /\ ret.op = "calculate_realized_gains_losses"
    /\ ret.value = TotalAmount(transactions[2].outputs)
                     - TotalAmount(transactions[2].inputs)
    /\ ret.value # 0

(***************************************************************************)
(* C9: the rate table holds, for every timestamp, exactly the rate of the  *)
(* last add_exchange_rate call made for it, and every gain or loss is      *)
(* computed with that rate.                                                *)
(***************************************************************************)
CallsFor(t) == {i \in DOMAIN rate_calls : rate_calls[i][1] = t}

LastRates ==
    [t \in {rate_calls[i][1] : i \in DOMAIN rate_calls} |->
        rate_calls[CHOOSE i \in CallsFor(t) : \A j \in CallsFor(t) : j <= i][2]]

C9_LastRateWins ==
    /\ [](exchange_rates = LastRates)
    /\ [][\A w \in Windows(Times) :
            CalculateRealizedGainsLosses(w[1], w[2])
                => ret'.value = GainOver(LastRates', w[1], w[2])]_vars

(* two calls for one timestamp with different rates, then a gain that the *)
(* first rate would have made different                                    *)
C9_Witness ==
    /\ Len(rate_calls) = 2
    /\ rate_calls[1][1] = rate_calls[2][1]
    /\ rate_calls[1][2] # rate_calls[2][2]
    /\ transactions # <<>>
    /\ ret.op = "calculate_realized_gains_losses"
    /\ ret.value = GainOver(LastRates, 0, 1)
    /\ ret.value # GainOver([t \in {rate_calls[1][1]} |-> rate_calls[1][2]], 0, 1)

IsPrefix(s, t) == Len(s) <= Len(t) /\ SubSeq(t, 1, Len(s)) = s

C11_LogsAppendOnly ==
    [][/\ IsPrefix(transactions, transactions')
       /\ IsPrefix(accounting_entries, accounting_entries')
       /\ \A tx \in AccountingTransactions :
             AddTransaction(tx) => transactions' = transactions \o <<tx>>]_vars

(* two different transactions in the log, entries of both, a rate set *)
C11_Witness ==
    /\ Len(transactions) = 2
    /\ transactions[1] # transactions[2]
    /\ \E i, j \in DOMAIN accounting_entries :
          accounting_entries[i].date # accounting_entries[j].date
    /\ rate_calls # <<>>
    /\ ret.op = "generate_fasb_report"

(***************************************************************************)
(* C12: a report or a gain/loss query leaves utxo_set, the transaction     *)
(* log, the accounting entries and the rate table as they were, and the    *)
(* same query made again right after it returns the same result.           *)
(***************************************************************************)
C12_QueriesArePureReads ==
    [][\A w \in Windows(Times) :
        /\ GenerateFasbReport(w[1], w[2]) =>
              /\ UNCHANGED <<utxo_set, transactions, accounting_entries, exchange_rates>>
              /\ ret'.value = FilterEntries(accounting_entries', w[1], w[2])
        /\ CalculateRealizedGainsLosses(w[1], w[2]) =>
              /\ UNCHANGED <<utxo_set, transactions, accounting_entries, exchange_rates>>
              /\ ret'.value = RealizedGainLoss(transactions', exchange_rates',
                                               w[1], w[2])]_vars

(* a non-empty report on an engine whose four parts are all non-empty *)
C12_Witness ==
    /\ ret.op = "generate_fasb_report"
    /\ ret.value # <<>>
    /\ utxo_set # EmptyMap
    /\ transactions # <<>>
    /\ accounting_entries # <<>>
    /\ exchange_rates # EmptyMap

(***************************************************************************)
(* C13: for a window whose start is after its end the report is empty and  *)
(* the gain or loss is zero.                                               *)
(***************************************************************************)
C13_MalformedWindowIsEmpty ==
    [][\A w \in Windows(Times) :
        w[1] > w[2] =>
            /\ GenerateFasbReport(w[1], w[2]) => ret'.value = <<>>
            /\ CalculateRealizedGainsLosses(w[1], w[2]) => ret'.value = 0]_vars

(* an empty report although there are entries at every date: only the     *)
(* window with start after end gives it                                    *)
C13_Witness ==
    /\ ret.op = "generate_fasb_report"
    /\ ret.value = <<>>
    /\ \A t \in Times : \E i \in DOMAIN accounting_entries :
          accounting_entries[i].date = t

(***************************************************************************)
(* C14: while no transaction has been applied, whatever rates have been    *)
(* set, every report is empty and every gain or loss is zero.              *)
(***************************************************************************)
C14_EmptyEngineQueries ==
    transactions = <<>> =>
        /\ ret.op = "generate_fasb_report" => ret.value = <<>>
        /\ ret.op = "calculate_realized_gains_losses" => ret.value = 0

(* a gain/loss query on an engine that holds rates and no transaction *)
C14_Witness ==
    /\ transactions = <<>>
    /\ Len(rate_calls) = 2
    /\ ret.op = "calculate_realized_gains_losses"

(***************************************************************************)
(* C15 as stated: every report is in chronological order, its dates never  *)
(* decreasing.                                                             *)
(***************************************************************************)
Chronological(entries) ==
    \A i, j \in DOMAIN entries : i <= j => entries[i].date <= entries[j].date

C15_ReportChronological ==
    ret.op = "generate_fasb_report" => Chronological(ret.value)

(***************************************************************************)
(* C15 amended: a report is in chronological order whenever the            *)
(* transactions were applied in non-decreasing order of their timestamps.  *)
(***************************************************************************)
AppliedInTimestampOrder ==
    \A i, j \in DOMAIN transactions :
        i <= j => transactions[i].timestamp <= transactions[j].timestamp

C15_ChronologicalIfAppliedInOrder ==
    ret.op = "generate_fasb_report" /\ AppliedInTimestampOrder
        => Chronological(ret.value)

(* transactions applied in timestamp order and a report over two dates *)
C15_Witness ==
    /\ AppliedInTimestampOrder
    /\ ret.op = "generate_fasb_report"
    /\ Len(ret.value) >= 2
    /\ ret.value[1].date < ret.value[Len(ret.value)].date

(***************************************************************************)
(* C16: after add_transaction(tx) a key of an output of tx holds the last  *)
(* output of tx with that key, also when tx lists the key among its        *)
(* inputs; any other key of an input of tx is absent; every other key is   *)
(* as before.                                                              *)
(***************************************************************************)
AllKeys == {FormatKey(txid, vout) : txid \in TxIds, vout \in Vouts}

C16_RemoveThenInsert ==
    [][IsApply =>
        \A k \in AllKeys :
            IF k \in OutputKeys(Applied)
            THEN k \in DOMAIN utxo_set' /\ utxo_set'[k] = LastOutputAt(Applied, k)
            ELSE IF k \in InputKeys(Applied)
            THEN k \notin DOMAIN utxo_set'
            ELSE /\ k \in DOMAIN utxo_set' <=> k \in DOMAIN utxo_set
                 /\ k \in DOMAIN utxo_set => utxo_set'[k] = utxo_set[k]]_vars

(* a transaction that spends a key of the set and stores another record   *)
(* under the same key, while another key stays as it was                   *)
C16_Witness ==
    /\ Len(transactions) = 2
    /\ Len(transactions[1].outputs) = 2
    /\ \E k \in InputKeys(transactions[2]) \cap OutputKeys(transactions[2]) :
          /\ k \in OutputKeys(transactions[1])
          /\ utxo_set[k] = LastOutputAt(transactions[2], k)
          /\ utxo_set[k] # LastOutputAt(transactions[1], k)
    /\ Cardinality(DOMAIN utxo_set) = 2

(***************************************************************************)
(* C17: every accounting entry has one side strictly positive and the      *)
(* other side zero, whatever amounts and fees the transactions carried.    *)
(***************************************************************************)
C17_OnePositiveSide ==
    \A i \in DOMAIN accounting_entries :
        \/ accounting_entries[i].debit > 0 /\ accounting_entries[i].credit = 0
        \/ accounting_entries[i].debit = 0 /\ accounting_entries[i].credit > 0

(* a debit and a credit entry in a log that also saw a negative total, a  *)
(* negative fee and a zero fee                                             *)
C17_Witness ==
    /\ Len(transactions) = 2
    /\ \E i \in DOMAIN accounting_entries : accounting_entries[i].debit > 0
    /\ \E i \in DOMAIN accounting_entries : accounting_entries[i].credit > 0
    /\ \E i \in DOMAIN transactions :
          TotalAmount(transactions[i].inputs) < 0 \/ TotalAmount(transactions[i].outputs) < 0
    /\ \E i \in DOMAIN transactions : transactions[i].fee < 0
    /\ \E i \in DOMAIN transactions : transactions[i].fee = 0

(***************************************************************************)
(* C18: the gain or loss of two adjacent windows a..b and b+1..c adds up   *)
(* to the gain or loss of the window a..c, for all a <= b < c.             *)
(***************************************************************************)
WindowBounds == {-1, 0, 1, 2}

C18_AdjacentWindowsAdd ==
    \A a, b, c \in WindowBounds :
        a <= b /\ b < c =>
            RealizedGainLoss(transactions, exchange_rates, a, b)
            + RealizedGainLoss(transactions, exchange_rates, b + 1, c)
            = RealizedGainLoss(transactions, exchange_rates, a, c)

(* a transaction on each side of the boundary, each with a gain or loss   *)
C18_Witness ==
    /\ Len(transactions) = 2
    /\ transactions[1].timestamp # transactions[2].timestamp
    /\ TxGain(exchange_rates, transactions[1]) # 0
    /\ TxGain(exchange_rates, transactions[2]) # 0
    /\ exchange_rates # EmptyMap
    /\ RealizedGainLoss(transactions, exchange_rates, 0, 1)
          = TxGain(exchange_rates, transactions[1]) + TxGain(exchange_rates, transactions[2])

(***************************************************************************)
(* C19: add_exchange_rate changes nothing but the rate of the timestamp it *)
(* is given, and add_transaction never changes the rate table.             *)
(***************************************************************************)
IsSetRate == Len(rate_calls') = Len(rate_calls) + 1

SetRateDate == rate_calls'[Len(rate_calls')][1]

C19_SetRateFrame ==
    [][/\ IsSetRate =>
            /\ UNCHANGED <<utxo_set, transactions, accounting_entries>>
            /\ DOMAIN exchange_rates' \ {SetRateDate} = DOMAIN exchange_rates \ {SetRateDate}
            /\ \A t \in DOMAIN exchange_rates \ {SetRateDate} :
                  exchange_rates'[t] = exchange_rates[t]
       /\ IsApply => exchange_rates' = exchange_rates]_vars

(* rates set for two timestamps, the first one still there, and a         *)
(* transaction applied after a rate was set                                *)
C19_Witness ==
    /\ Len(rate_calls) = 2
    /\ rate_calls[1][1] # rate_calls[2][1]
    /\ exchange_rates[rate_calls[1][1]] = rate_calls[1][2]
    /\ transactions # <<>>
    /\ utxo_set # EmptyMap

====
